---- MODULE Spec2Model ----
(***************************************************************************)
(* A model of the example servers of the repository:                       *)
(*   - examples/advanced_server.py: the in-memory TaskDatabase and the     *)
(*     tools, resources and prompts registered on it (specification Spec); *)
(*   - examples/server_with_transports.py: main's transport selection      *)
(*     (specification MainSpec);                                           *)
(*   - examples/win_auth_http.py: fetch_with_windows_auth                  *)
(*     (specification FetchSpec).                                          *)
(***************************************************************************)
EXTENDS Integers, Sequences, FiniteSets, TLC

VARIABLES
    db,         \* the TaskDatabase: [tasks, next_id]
    started,    \* TRUE once the lifespan has created the sample tasks
    op,         \* name of the last operation run on the database
    arg,        \* the argument of the last operation
    reply,      \* what the last operation returned
    repeat,     \* TRUE iff the last two operations were complete_task on the same id
    assigned    \* the ids handed out by TaskDatabase.create_task, in call order

taskVars == <<db, started, op, arg, reply, repeat, assigned>>

VARIABLES
    argv,         \* sys.argv of server_with_transports.py, each string a list of characters
    main_pc,      \* "start" before main runs, "done" after
    transport,    \* main's local variable transport
    port,         \* main's local variable port
    server,       \* the server main has started: [kind |-> "none"] or how it runs
    raised,       \* the exception that left main: "none", "SystemExit" or "ValueError"
    exit_status   \* <<>> while the process has not exited, <<n>> once it exited with n

mainVars == <<argv, main_pc, transport, port, server, raised, exit_status>>

VARIABLES
    have,          \* HAVE_NTLM, HAVE_KERBEROS, HAVE_NEGOTIATE of win_auth_http.py
    auth_method,   \* the auth_method argument of fetch_with_windows_auth
    environ,       \* os.environ: the variables that are set, with their values
    fetch_pc,      \* where fetch_with_windows_auth stands
    sent,          \* the requests.get calls made so far, in order
    responses,     \* what each of them gave: a response or an exception
    auth_methods,  \* the local list auth_methods (names only)
    errors,        \* the local list errors
    result         \* the value returned

fetchVars == <<have, auth_method, environ, fetch_pc, sent, responses,
               auth_methods, errors, result>>

vars == <<taskVars, mainVars, fetchVars>>

-----------------------------------------------------------------------------
(* Bounds and input domains of the task store.                             *)

\* create_task is not called once this many ids were handed out
MaxTasks == 3

Titles == {"t"}
Descriptions == {"d"}
TagLists == {<<"mcp">>, <<"">>}
\* the values datetime.now() may give
Times == {0, 1}
\* the tags list_tasks is asked for: <<>> is None, <<s>> is the string s
TagArgs == {<<>>, <<"">>, <<"mcp">>}
\* the ids the operations are called with
IdArgs == 0 .. (MaxTasks + 1)

None == [kind |-> "None"]

-----------------------------------------------------------------------------
(* A Python dict: its items in insertion order, keys unique.               *)

dict_keys(d) == {d[i].key : i \in 1 .. Len(d)}

dict_has(d, k) == k \in dict_keys(d)

dict_index(d, k) == CHOOSE i \in 1 .. Len(d) : d[i].key = k

\* d.get(k)
dict_get(d, k) == IF dict_has(d, k) THEN d[dict_index(d, k)].value ELSE None

\* d[k] = v: an existing key keeps its position, a new key goes last
dict_set(d, k, v) ==
    IF dict_has(d, k)
    THEN [d EXCEPT ![dict_index(d, k)] = [key |-> k, value |-> v]]
    ELSE Append(d, [key |-> k, value |-> v])

\* list(d.values())
dict_values(d) == [i \in 1 .. Len(d) |-> d[i].value]

\* x in s, for a list s
In(x, s) == \E i \in 1 .. Len(s) : s[i] = x

-----------------------------------------------------------------------------
(* Task and TaskDatabase.                                                  *)

Task(id, title, description, created_at, tags) ==
    [id |-> id, title |-> title, description |-> description,
     completed |-> FALSE, created_at |-> created_at, tags |-> tags]

TaskDatabase == [tasks |-> <<>>, next_id |-> 1]

\* create_task that forgets "self.next_id += 1"
create_task_no_increment(self, title, description, tags, now) ==
    LET task == Task(self.next_id, title, description, now, tags)
    IN  [db  |-> [tasks   |-> dict_set(self.tasks, self.next_id, task),
                  next_id |-> self.next_id],
         ret |-> task]

\* create_task that rebuilds the dict: "self.tasks = {self.next_id: task}"
create_task_rebuilds_dict(self, title, description, tags, now) ==
    LET task == Task(self.next_id, title, description, now, tags)
    IN  [db  |-> [tasks   |-> <<[key |-> self.next_id, value |-> task]>>,
                  next_id |-> self.next_id + 1],
         ret |-> task]

\* create_task that passes the description as the title
create_task_wrong_title(self, title, description, tags, now) ==
    LET task == Task(self.next_id, description, description, now, tags)
    IN  [db  |-> [tasks   |-> dict_set(self.tasks, self.next_id, task),
                  next_id |-> self.next_id + 1],
         ret |-> task]

\* each method gives the database after the call and the value returned
TaskDatabase_create_task(self, title, description, tags, now) ==
    LET task == Task(self.next_id, title, description, now, tags)
    IN  [db  |-> [tasks   |-> dict_set(self.tasks, self.next_id, task),
                  next_id |-> self.next_id + 1],
         ret |-> task]

TaskDatabase_get_task(self, task_id) ==
    [db |-> self, ret |-> dict_get(self.tasks, task_id)]

\* "if tag:" holds for a string that is not empty
Truthy(tag) == tag # <<>> /\ tag[1] # ""

\* list_tasks that filters the stored dict itself instead of a copy of its values
list_tasks_filters_in_place(self, tag) ==
    LET HasTagItem(item) == In(tag[1], item.value.tags)
        kept == IF Truthy(tag) THEN SelectSeq(self.tasks, HasTagItem) ELSE self.tasks
    IN  [db  |-> [self EXCEPT !.tasks = kept],
         ret |-> dict_values(kept)]

TaskDatabase_list_tasks(self, tag) ==
    LET tasks == dict_values(self.tasks)
        HasTag(t) == In(tag[1], t.tags)
    IN  [db  |-> self,
         ret |-> IF Truthy(tag) THEN SelectSeq(tasks, HasTag) ELSE tasks]

\* attributes of a Task that are not fields: its methods, such as the
\* model_dump the tools call
TaskMethods == {"model_dump"}

\* hasattr(task, key)
hasattr(task, key) == key \in DOMAIN task \/ key \in TaskMethods

\* the loop "for key, value in kwargs.items(): if hasattr(task, key):
\* setattr(task, key, value)" on kwargs, a dict: the task as it is left, and
\* the exception raised.  setattr on a pydantic model stores the value of a
\* field without validating it and raises ValueError for any other name.
RECURSIVE SetAttrs(_, _)
SetAttrs(task, kwargs) ==
    IF kwargs = <<>>
    THEN [task |-> task, raised |-> "none"]
    ELSE LET key == Head(kwargs).key
             value == Head(kwargs).value
         IN  IF ~hasattr(task, key)
             THEN SetAttrs(task, Tail(kwargs))
             ELSE IF key \in DOMAIN task
             THEN SetAttrs([task EXCEPT ![key] = value], Tail(kwargs))
             ELSE [task |-> task, raised |-> "ValueError"]

\* update_task that flips a boolean field instead of setting it
update_task_toggles(self, task_id, kwargs) ==
    IF dict_has(self.tasks, task_id)
    THEN LET old == dict_get(self.tasks, task_id)
             task == [f \in DOMAIN old |->
                        IF dict_has(kwargs, f)
                        THEN (IF f = "completed" THEN ~old[f] ELSE dict_get(kwargs, f))
                        ELSE old[f]]
         IN  [db  |-> [self EXCEPT !.tasks = dict_set(self.tasks, task_id, task)],
              ret |-> task, raised |-> "none"]
    ELSE [db |-> self, ret |-> None, raised |-> "none"]

\* the task is changed in place, so what the loop has set before an
\* exception stays set
TaskDatabase_update_task(self, task_id, kwargs) ==
    IF dict_has(self.tasks, task_id)
    THEN LET s == SetAttrs(dict_get(self.tasks, task_id), kwargs)
         IN  [db  |-> [self EXCEPT !.tasks = dict_set(self.tasks, task_id, s.task)],
              ret |-> IF s.raised = "none" THEN s.task ELSE None,
              raised |-> s.raised]
    ELSE [db |-> self, ret |-> None, raised |-> "none"]

-----------------------------------------------------------------------------
(* The tools, resources and prompts of advanced_server.py.                 *)

\* datetime.isoformat, on the values of Times
isoformat(t) == <<"2025-01-01T00:00:00", "2025-01-01T00:00:01">>[t + 1]

\* task.model_dump(mode='json'): the fields, the timestamp as an ISO string
model_dump(task) == [task EXCEPT !.created_at = isoformat(task.created_at)]

dump_all(tasks) == [i \in 1 .. Len(tasks) |-> model_dump(tasks[i])]

\* the keyword arguments batch_update_tasks is given besides task_id, each a
\* dict: its items in the order they were written
KwargsSet ==
    { <<>>,
      <<[key |-> "completed", value |-> TRUE]>>,
      <<[key |-> "id", value |-> 2], [key |-> "title", value |-> "t"],
        [key |-> "bogus", value |-> 1]>>,
      <<[key |-> "completed", value |-> TRUE], [key |-> "model_dump", value |-> 1],
        [key |-> "title", value |-> "t"]>> }

\* one update: a dict with or without the key task_id
\* (the updates of several keys are given for the first task and for one that is not stored)
Updates ==
    KwargsSet
    \cup {<<[key |-> "task_id", value |-> k]>> \o kw :
             k \in IdArgs, kw \in {x \in KwargsSet : Len(x) <= 1}}
    \cup {<<[key |-> "task_id", value |-> k]>> \o kw :
             k \in {1, MaxTasks + 1}, kw \in {x \in KwargsSet : Len(x) > 1}}

UpdateLists ==
    {<<>>} \cup {<<u>> : u \in Updates}
           \cup {<< <<[key |-> "completed", value |-> TRUE]>>,
                    <<[key |-> "task_id", value |-> 2], [key |-> "completed", value |-> TRUE]>> >>,
                 << <<[key |-> "task_id", value |-> 1], [key |-> "completed", value |-> TRUE]>>,
                    <<[key |-> "task_id", value |-> 2], [key |-> "completed", value |-> TRUE]>> >>,
                 << <<[key |-> "task_id", value |-> 1], [key |-> "id", value |-> 2],
                      [key |-> "title", value |-> "t"]>>,
                    <<[key |-> "task_id", value |-> MaxTasks + 1],
                      [key |-> "title", value |-> "t"]>> >>}

\* update.pop("task_id", None) followed by "if not task_id"
NoTaskId(update) == ~dict_has(update, "task_id") \/ dict_get(update, "task_id") = 0

\* what is left of the dict after the pop
Popped(update) ==
    LET Other(item) == item.key # "task_id"
    IN  SelectSeq(update, Other)

\* the for loop of batch_update_tasks, from the i-th update on
RECURSIVE batch_loop(_, _, _, _, _)
batch_loop(self, updates, i, res, errs) ==
    IF i > Len(updates)
    THEN [db |-> self, results |-> res, errors |-> errs, raised |-> "none"]
    ELSE LET update == updates[i] IN
         IF NoTaskId(update)
         THEN batch_loop(self, updates, i + 1, res,
                         Append(errs, [msg |-> "Missing task_id in update"]))
         ELSE LET task_id == dict_get(update, "task_id")
                  u == TaskDatabase_update_task(self, task_id, Popped(update))
              IN  IF u.raised # "none"
                  THEN [db |-> u.db, results |-> res, errors |-> errs,
                        raised |-> u.raised]
                  ELSE IF u.ret # None
                  THEN batch_loop(u.db, updates, i + 1,
                                  Append(res, [task_id |-> task_id,
                                                   success |-> TRUE,
                                                   task    |-> model_dump(u.ret)]),
                                  errs)
                  ELSE batch_loop(u.db, updates, i + 1, res,
                                  Append(errs, [msg     |-> "not found",
                                                  task_id |-> task_id]))

\* the statistics of get_statistics that do not depend on the clock
statistics(self) ==
    LET all_tasks == TaskDatabase_list_tasks(self, <<>>).ret
        Done(t) == t.completed
        Pending(t) == ~t.completed
    IN  [total_tasks     |-> Len(all_tasks),
         completed_tasks |-> Len(SelectSeq(all_tasks, Done)),
         pending_tasks   |-> Len(SelectSeq(all_tasks, Pending)),
         tags            |-> {all_tasks[i].tags[j] :
                                 <<i, j>> \in {<<i, j>> \in (1 .. Len(all_tasks)) \X (1 .. 2) :
                                                 j <= Len(all_tasks[i].tags)}}]

-----------------------------------------------------------------------------

MainIdle ==
    /\ argv = <<>>
    /\ main_pc = "idle"
    /\ transport = <<>>
    /\ port = 0
    /\ server = [kind |-> "none"]
    /\ raised = "none"
    /\ exit_status = <<>>

FetchIdle ==
    /\ have = [ntlm |-> FALSE, kerberos |-> FALSE, negotiate |-> FALSE]
    /\ auth_method = "auto"
    /\ environ = <<>>
    /\ fetch_pc = "idle"
    /\ sent = <<>>
    /\ responses = <<>>
    /\ auth_methods = <<>>
    /\ errors = <<>>
    /\ result = None

Init ==
    /\ MainIdle
    /\ FetchIdle
    /\ db = TaskDatabase
    /\ started = FALSE
    /\ op = "init"
    /\ arg = <<>>
    /\ reply = None
    /\ repeat = FALSE
    /\ assigned = <<>>

lifespan ==
    /\ ~started
    /\ LET c1 == TaskDatabase_create_task(db, "Setup MCP Server",
                    "Create an advanced MCP server with FastMCP",
                    <<"development", "mcp">>, 0)
           c2 == TaskDatabase_create_task(c1.db, "Add Authentication",
                    "Implement authentication for the MCP server",
                    <<"security", "enhancement">>, 0)
       IN  /\ db' = c2.db
           /\ assigned' = assigned \o <<c1.ret.id, c2.ret.id>>
    /\ started' = TRUE
    /\ op' = "lifespan"
    /\ arg' = <<>>
    /\ reply' = None
    /\ repeat' = FALSE
    /\ UNCHANGED <<mainVars, fetchVars>>

\* the ghost variable repeat is FALSE after every operation but a repeated complete_task
Called(name, a, r) ==
    /\ started
    /\ op' = name
    /\ arg' = a
    /\ reply' = r
    /\ started' = started

create_task ==
    /\ started
    /\ db.next_id <= MaxTasks /\ Len(assigned) < MaxTasks
    /\ \E title \in Titles, description \in Descriptions, tags \in TagLists, now \in Times :
          LET c == TaskDatabase_create_task(db, title, description, tags, now)
          IN  /\ db' = c.db
              /\ assigned' = Append(assigned, c.ret.id)
              /\ Called("create_task",
                        [title |-> title, description |-> description, tags |-> tags],
                        [success |-> TRUE, task |-> model_dump(c.ret)])
    /\ repeat' = FALSE
    /\ UNCHANGED <<mainVars, fetchVars>>

get_task ==
    /\ \E task_id \in IdArgs :
          LET g == TaskDatabase_get_task(db, task_id)
          IN  /\ db' = g.db
              /\ Called("get_task", task_id, g.ret)
    /\ repeat' = FALSE
    /\ UNCHANGED assigned
    /\ UNCHANGED <<mainVars, fetchVars>>

list_tasks ==
    /\ \E tag \in TagArgs :
          LET l == TaskDatabase_list_tasks(db, tag)
          IN  /\ db' = l.db
              /\ Called("list_tasks", tag, dump_all(l.ret))
    /\ repeat' = FALSE
    /\ UNCHANGED assigned
    /\ UNCHANGED <<mainVars, fetchVars>>

complete_task ==
    /\ \E task_id \in IdArgs :
          LET u == TaskDatabase_update_task(db, task_id,
                                               <<[key |-> "completed", value |-> TRUE]>>)
          IN  /\ db' = u.db
              /\ Called("complete_task", task_id,
                        IF u.ret # None
                        THEN [success |-> TRUE, task_id |-> task_id,
                              task |-> model_dump(u.ret)]
                        ELSE [success |-> FALSE, error |-> "not found",
                              task_id |-> task_id])
              /\ repeat' = (op = "complete_task" /\ arg = task_id)
    /\ UNCHANGED assigned
    /\ UNCHANGED <<mainVars, fetchVars>>

batch_update_tasks ==
    /\ \E updates \in UpdateLists :
          LET b == batch_loop(db, updates, 1, <<>>, <<>>)
          IN  /\ db' = b.db
              /\ Called("batch_update_tasks", updates,
                        IF b.raised # "none"
                        THEN [raised |-> b.raised]
                        ELSE
                        [total      |-> Len(updates),
                         successful |-> Len(b.results),
                         failed     |-> Len(b.errors),
                         results    |-> b.results,
                         errors     |-> b.errors])
    /\ repeat' = FALSE
    /\ UNCHANGED assigned
    /\ UNCHANGED <<mainVars, fetchVars>>

get_all_tasks ==
    /\ LET l == TaskDatabase_list_tasks(db, <<>>)
       IN  /\ db' = l.db
           /\ Called("get_all_tasks", <<>>, [json |-> dump_all(l.ret)])
    /\ repeat' = FALSE
    /\ UNCHANGED assigned
    /\ UNCHANGED <<mainVars, fetchVars>>

get_statistics ==
    /\ db' = TaskDatabase_list_tasks(db, <<>>).db
    /\ Called("get_statistics", <<>>, [json |-> statistics(db)])
    /\ repeat' = FALSE
    /\ UNCHANGED assigned
    /\ UNCHANGED <<mainVars, fetchVars>>

task_review_prompt ==
    /\ LET l == TaskDatabase_list_tasks(db, <<>>)
           Pending(t) == ~t.completed
           pending_tasks == SelectSeq(l.ret, Pending)
       IN  /\ db' = l.db
           /\ Called("task_review_prompt", <<>>,
                     IF pending_tasks = <<>>
                     THEN [prompt |-> "Great job! All tasks are completed."]
                     ELSE [prompt |-> "Pending Tasks Review",
                           count  |-> Len(pending_tasks),
                           lines  |-> [i \in 1 .. Len(pending_tasks) |->
                                         [title       |-> pending_tasks[i].title,
                                          id          |-> pending_tasks[i].id,
                                          description |-> pending_tasks[i].description,
                                          tags        |-> pending_tasks[i].tags]]])
    /\ repeat' = FALSE
    /\ UNCHANGED assigned
    /\ UNCHANGED <<mainVars, fetchVars>>

daily_summary_prompt ==
    /\ LET stats_data == statistics(db)
       IN  /\ db' = TaskDatabase_list_tasks(db, <<>>).db
           /\ Called("daily_summary_prompt", <<>>,
                     [prompt    |-> "Daily Task Summary",
                      total     |-> stats_data.total_tasks,
                      completed |-> stats_data.completed_tasks,
                      pending   |-> stats_data.pending_tasks,
                      tags      |-> stats_data.tags,
                      closing   |-> IF stats_data.pending_tasks > 0
                                    THEN "You still have pending tasks."
                                    ELSE "All tasks completed!"])
    /\ repeat' = FALSE
    /\ UNCHANGED assigned
    /\ UNCHANGED <<mainVars, fetchVars>>

Next ==
    \/ lifespan
    \/ create_task
    \/ get_task
    \/ list_tasks
    \/ complete_task
    \/ batch_update_tasks
    \/ get_all_tasks
    \/ get_statistics
    \/ task_review_prompt
    \/ daily_summary_prompt

Spec == Init /\ [][Next]_vars

-----------------------------------------------------------------------------
(* server_with_transports.py: main.  Strings are lists of characters, so   *)
(* that int() is computed on the text of the argument.                     *)

PROG == <<"s", "e", "r", "v", "e", "r">>
OPT_TRANSPORT == <<"-", "-", "t", "r", "a", "n", "s", "p", "o", "r", "t">>
OPT_PORT == <<"-", "-", "p", "o", "r", "t">>
STDIO == <<"s", "t", "d", "i", "o">>
SSE == <<"s", "s", "e">>
STREAMABLE_HTTP == <<"s", "t", "r", "e", "a", "m", "a", "b", "l", "e", "-", "h", "t", "t", "p">>
UNKNOWN_TRANSPORT == <<"h", "t", "t", "p">>
PORT_9000 == <<"9", "0", "0", "0">>
PORT_8_0 == <<"8", "_", "0", " ">>
PORT_ABC == <<"a", "b", "c">>

\* main is run with at most this many arguments after the program name
MaxArgs == 4

ArgTokens == {OPT_TRANSPORT, OPT_PORT, STDIO, SSE, STREAMABLE_HTTP,
              UNKNOWN_TRANSPORT, PORT_9000, PORT_8_0, PORT_ABC}

ArgLists == UNION {[1 .. n -> ArgTokens] : n \in 0 .. MaxArgs}

DEFAULT_PORT == 8000

Digits == <<"0", "1", "2", "3", "4", "5", "6", "7", "8", "9">>

IsDigit(c) == \E d \in 1 .. Len(Digits) : Digits[d] = c

DigitVal(c) == (CHOOSE d \in 1 .. Len(Digits) : Digits[d] = c) - 1

RECURSIVE lstrip(_)
lstrip(s) == IF s # <<>> /\ Head(s) = " " THEN lstrip(Tail(s)) ELSE s

RECURSIVE rstrip(_)
rstrip(s) ==
    IF s # <<>> /\ s[Len(s)] = " " THEN rstrip(SubSeq(s, 1, Len(s) - 1)) ELSE s

\* decimal digits, single underscores allowed between two digits
IsDecimal(s) ==
    /\ s # <<>>
    /\ IsDigit(s[1])
    /\ IsDigit(s[Len(s)])
    /\ \A i \in 1 .. Len(s) : IsDigit(s[i]) \/ (s[i] = "_" /\ IsDigit(s[i + 1]))

RECURSIVE decimal_value(_, _)
decimal_value(s, acc) ==
    IF s = <<>> THEN acc
    ELSE IF Head(s) = "_" THEN decimal_value(Tail(s), acc)
    ELSE decimal_value(Tail(s), 10 * acc + DigitVal(Head(s)))

\* Python's int(s) for a str: [ok |-> TRUE, value |-> n], or ValueError
py_int(s) ==
    LET t == rstrip(lstrip(s))
        signed == t # <<>> /\ t[1] \in {"+", "-"}
        body == IF signed THEN Tail(t) ELSE t
        n == decimal_value(body, 0)
    IN  IF IsDecimal(body)
        THEN [ok |-> TRUE, value |-> IF signed /\ t[1] = "-" THEN 0 - n ELSE n]
        ELSE [ok |-> FALSE]

\* sys.argv.index(x) + 1: the position of the first x, counting from 1
index(a, x) == CHOOSE i \in 1 .. Len(a) : a[i] = x /\ \A j \in 1 .. (i - 1) : a[j] # x

\* lines 108, 111-114
select_transport(a) ==
    IF In(OPT_TRANSPORT, a) /\ index(a, OPT_TRANSPORT) < Len(a)
    THEN a[index(a, OPT_TRANSPORT) + 1]
    ELSE STDIO

\* lines 109, 116-119: the port, or the ValueError of int()
select_port(a) ==
    IF In(OPT_PORT, a) /\ index(a, OPT_PORT) < Len(a)
    THEN py_int(a[index(a, OPT_PORT) + 1])
    ELSE [ok |-> TRUE, value |-> DEFAULT_PORT]

\* a dispatch whose else branch falls back to the default transport
dispatch_default_stdio(t, p) ==
    IF t = SSE
    THEN [server |-> [kind |-> "sse", host |-> "0.0.0.0", port |-> p],
          raised |-> "none", exit_status |-> <<>>]
    ELSE IF t = STREAMABLE_HTTP
    THEN [server |-> [kind |-> "streamable-http", host |-> "0.0.0.0", port |-> p,
                      path |-> "/mcp"],
          raised |-> "none", exit_status |-> <<>>]
    ELSE [server |-> [kind |-> "stdio"], raised |-> "none", exit_status |-> <<>>]

\* lines 123-143: the server that is run, or sys.exit(1)
dispatch(t, p) ==
    IF t = STDIO
    THEN [server |-> [kind |-> "stdio"], raised |-> "none", exit_status |-> <<>>]
    ELSE IF t = SSE
    THEN [server |-> [kind |-> "sse", host |-> "0.0.0.0", port |-> p],
          raised |-> "none", exit_status |-> <<>>]
    ELSE IF t = STREAMABLE_HTTP
    THEN [server |-> [kind |-> "streamable-http", host |-> "0.0.0.0", port |-> p,
                      path |-> "/mcp"],
          raised |-> "none", exit_status |-> <<>>]
    ELSE [server |-> [kind |-> "none"], raised |-> "SystemExit", exit_status |-> <<1>>]

TaskIdle ==
    /\ db = TaskDatabase
    /\ started = FALSE
    /\ op = "init"
    /\ arg = <<>>
    /\ reply = None
    /\ repeat = FALSE
    /\ assigned = <<>>

MainInit ==
    /\ TaskIdle
    /\ FetchIdle
    /\ \E args \in ArgLists : argv = <<PROG>> \o args
    /\ main_pc = "start"
    /\ transport = <<>>
    /\ port = 0
    /\ server = [kind |-> "none"]
    /\ raised = "none"
    /\ exit_status = <<>>

\* main(), called from the last line of the script; an exception that leaves
\* main ends the interpreter: SystemExit(1) and a traceback both with status 1
main ==
    /\ main_pc = "start"
    /\ main_pc' = "done"
    /\ transport' = select_transport(argv)
    /\ LET p == select_port(argv)
       IN  IF p.ok
           THEN LET d == dispatch(transport', p.value)
                IN  /\ port' = p.value
                    /\ server' = d.server
                    /\ raised' = d.raised
                    /\ exit_status' = d.exit_status
           ELSE /\ port' = DEFAULT_PORT
                /\ server' = [kind |-> "none"]
                /\ raised' = "ValueError"
                /\ exit_status' = <<1>>
    /\ UNCHANGED argv
    /\ UNCHANGED <<taskVars, fetchVars>>

MainNext == main

MainSpec == MainInit /\ [][MainNext]_vars

-----------------------------------------------------------------------------
(* win_auth_http.py: fetch_with_windows_auth.                              *)

\* response.text is cut to this many characters
MAX_CONTENT == 5000

UNAUTH_TIMEOUT == 10

AUTH_TIMEOUT == 30

\* what requests.get may give: a response with a status code and a text of
\* some length, or an exception that is not an HTTPError
Responses ==
    {[kind |-> "response", status_code |-> c, length |-> n] :
        c \in {200}, n \in {MAX_CONTENT, MAX_CONTENT + 1}}
    \cup {[kind |-> "response", status_code |-> c, length |-> 0] : c \in {401, 403, 500}}
    \cup {[kind |-> "exception", name |-> "ConnectionError"]}

AuthMethodArgs == {"auto", "ntlm", "kerberos", "negotiate", "basic", "NTLM"}

\* os.environ with USERNAME and USERDOMAIN unset, set to "" or set to a name
Environs ==
    {u @@ d : u \in {<<>>, [USERNAME |-> ""], [USERNAME |-> "alice"]},
              d \in {<<>>, [USERDOMAIN |-> ""], [USERDOMAIN |-> "CORP"]}}

\* os.environ.get(name, default)
environ_get(env, name, default) == IF name \in DOMAIN env THEN env[name] ELSE default

\* response.raise_for_status() raises HTTPError
raises_http_error(r) ==
    r.kind = "response" /\ r.status_code >= 400 /\ r.status_code < 600

\* text[:MAX_CONTENT]
cut(length) == IF length > MAX_CONTENT THEN MAX_CONTENT ELSE length

\* lines 15-36: the module-level list auth_available
auth_available(h) ==
    (IF h.ntlm THEN <<"ntlm">> ELSE <<>>)
    \o (IF h.kerberos THEN <<"kerberos">> ELSE <<>>)
    \o (IF h.negotiate THEN <<"negotiate">> ELSE <<>>)

\* an unauthenticated attempt that goes on to authenticate after any HTTP error
after_unauth_any_error(r) ==
    IF r.kind = "response" /\ ~raises_http_error(r)
    THEN [pc |-> "done",
          result |-> [kind |-> "Success (no auth needed)", status |-> r.status_code,
                      content |-> cut(r.length)]]
    ELSE [pc |-> "prepare", result |-> None]

\* lines 69-78: what follows the unauthenticated request
after_unauth(r) ==
    IF r.kind = "response" /\ ~raises_http_error(r)
    THEN [pc |-> "done",
          result |-> [kind |-> "Success (no auth needed)", status |-> r.status_code,
                      content |-> cut(r.length)]]
    ELSE IF raises_http_error(r) /\ r.status_code # 401
    THEN [pc |-> "done", result |-> [kind |-> "Error", status |-> r.status_code]]
    ELSE [pc |-> "prepare", result |-> None]

\* the methods in the order of auth_available
prepare_auth_methods_ntlm_first(h, method, env) ==
    (IF h.ntlm /\ (method = "auto" \/ method = "ntlm")
        /\ environ_get(env, "USERNAME", "") # ""
        /\ environ_get(env, "USERDOMAIN", "") # ""
     THEN <<"ntlm">> ELSE <<>>)
    \o (IF h.kerberos /\ (method = "auto" \/ method = "kerberos")
        THEN <<"kerberos">> ELSE <<>>)
    \o (IF h.negotiate /\ (method = "auto" \/ method = "negotiate")
        THEN <<"negotiate">> ELSE <<>>)

\* lines 81-93: the list auth_methods
prepare_auth_methods(h, method, env) ==
    (IF h.negotiate /\ (method = "auto" \/ method = "negotiate")
     THEN <<"negotiate">> ELSE <<>>)
    \o (IF h.kerberos /\ (method = "auto" \/ method = "kerberos")
        THEN <<"kerberos">> ELSE <<>>)
    \o (IF h.ntlm /\ (method = "auto" \/ method = "ntlm")
        THEN (LET username == environ_get(env, "USERNAME", "")
                  domain == environ_get(env, "USERDOMAIN", "")
              IN  IF username # "" /\ domain # "" THEN <<"ntlm">> ELSE <<>>)
        ELSE <<>>)

FetchInit ==
    /\ TaskIdle
    /\ MainIdle
    /\ have \in [ntlm : BOOLEAN, kerberos : BOOLEAN, negotiate : BOOLEAN]
    /\ auth_method \in AuthMethodArgs
    /\ environ \in Environs
    /\ fetch_pc = "start"
    /\ sent = <<>>
    /\ responses = <<>>
    /\ auth_methods = <<>>
    /\ errors = <<>>
    /\ result = None

\* lines 69-78: the request without authentication
fetch_unauth ==
    /\ fetch_pc = "start"
    /\ \E r \in Responses :
          LET a == after_unauth(r)
          IN  /\ sent' = Append(sent, [auth |-> "none", timeout |-> UNAUTH_TIMEOUT])
              /\ responses' = Append(responses, r)
              /\ fetch_pc' = a.pc
              /\ result' = a.result
    /\ UNCHANGED <<have, auth_method, environ, auth_methods, errors>>
    /\ UNCHANGED <<taskVars, mainVars>>

\* lines 81-99
prepare_auth ==
    /\ fetch_pc = "prepare"
    /\ auth_methods' = prepare_auth_methods(have, auth_method, environ)
    /\ IF auth_methods' = <<>>
       THEN /\ fetch_pc' = "done"
            /\ result' = [kind |-> "No authentication methods available",
                          available |-> auth_available(have)]
       ELSE /\ fetch_pc' = "loop"
            /\ result' = result
    /\ errors' = <<>>
    /\ UNCHANGED <<have, auth_method, environ, sent, responses>>
    /\ UNCHANGED <<taskVars, mainVars>>

\* lines 100-119: one turn of the loop, with the next method of the list
try_auth ==
    /\ fetch_pc = "loop"
    /\ Len(sent) - 1 < Len(auth_methods)
    /\ LET auth_name == auth_methods[Len(sent)]
       IN  \E r \in Responses :
              /\ sent' = Append(sent, [auth |-> auth_name, timeout |-> AUTH_TIMEOUT])
              /\ responses' = Append(responses, r)
              /\ IF r.kind = "response" /\ ~raises_http_error(r)
                 THEN /\ fetch_pc' = "done"
                      /\ result' = [kind |-> "Success with", method |-> auth_name,
                                    status |-> r.status_code,
                                    content |-> cut(r.length),
                                    truncated |-> r.length > MAX_CONTENT]
                      /\ errors' = errors
                 ELSE /\ fetch_pc' = "loop"
                      /\ result' = result
                      /\ errors' = Append(errors,
                            IF raises_http_error(r)
                            THEN [method |-> auth_name, status |-> r.status_code]
                            ELSE [method |-> auth_name, exception |-> r.name])
    /\ UNCHANGED <<have, auth_method, environ, auth_methods>>
    /\ UNCHANGED <<taskVars, mainVars>>

\* line 122: the loop has run out of methods
all_failed ==
    /\ fetch_pc = "loop"
    /\ Len(sent) - 1 = Len(auth_methods)
    /\ fetch_pc' = "done"
    /\ result' = [kind |-> "Authentication failed", errors |-> errors]
    /\ UNCHANGED <<have, auth_method, environ, sent, responses, auth_methods, errors>>
    /\ UNCHANGED <<taskVars, mainVars>>

FetchNext ==
    \/ fetch_unauth
    \/ prepare_auth
    \/ try_auth
    \/ all_failed

FetchSpec == FetchInit /\ [][FetchNext]_vars

-----------------------------------------------------------------------------
(* Properties of the task store.                                           *)

stored == dict_values(db.tasks)

\* C1: task identifiers are unique: no two stored tasks have the same id
\* field, and the task stored under key k has id field k.
C1_UniqueIds ==
    /\ \A i, j \in 1 .. Len(db.tasks) :
          i # j => db.tasks[i].value.id # db.tasks[j].value.id
    /\ \A i \in 1 .. Len(db.tasks) : db.tasks[i].value.id = db.tasks[i].key

\* C2: the n-th call of TaskDatabase.create_task assigns the id n, so every
\* call assigns an id greater than all ids assigned before, whatever ran in between.
C2_IdsNeverReused ==
    /\ \A n \in 1 .. Len(assigned) : assigned[n] = n
    /\ \A m, n \in 1 .. Len(assigned) : m < n => assigned[m] < assigned[n]

\* a create_task call is given a fresh id although the id field of an
\* earlier task was overwritten with another task's id in between
C2_Witness ==
    /\ op = "create_task"
    /\ Len(assigned) = 3
    /\ reply.task.id = 3
    /\ db.tasks[1].value.id = 2

\* C3: a key present in the TaskDatabase is present in every later state.
C3_KeysOnlyGrow == [][dict_keys(db.tasks) \subseteq dict_keys(db'.tasks)]_vars

C3_Witness ==
    /\ op = "batch_update_tasks"
    /\ "successful" \in DOMAIN reply
    /\ reply.successful = 2
    /\ dict_keys(db.tasks) = 1 .. 3

ReadOps == {"get_task", "list_tasks", "get_all_tasks", "get_statistics",
            "task_review_prompt", "daily_summary_prompt"}

\* C4: get_task, list_tasks, the two resources and the two prompts leave the
\* task map, every field of every stored task, and next_id unchanged.
C4_ReadOnly == [][op' \in ReadOps => db' = db]_vars

\* list_tasks has filtered some tasks out of its reply
C4_Witness ==
    /\ op = "list_tasks"
    /\ arg = <<"mcp">>
    /\ Len(reply) = 2
    /\ Len(db.tasks) = 3

\* C5: create_task(title, description, tags) stores a task with these
\* arguments and completed = FALSE, get_task with the returned id yields that
\* task, and get_task with an id that was never assigned yields None.
C5_CreateThenGet ==
    /\ op = "create_task" =>
          /\ reply.success
          /\ reply.task.id = assigned[Len(assigned)]
          /\ \E now \in Times :
                /\ TaskDatabase_get_task(db, reply.task.id).ret =
                      [id |-> reply.task.id, title |-> arg.title,
                       description |-> arg.description, completed |-> FALSE,
                       created_at |-> now, tags |-> arg.tags]
                /\ reply.task = model_dump(TaskDatabase_get_task(db, reply.task.id).ret)
    /\ (op = "get_task" /\ ~In(arg, assigned)) => reply = None
    /\ \A task_id \in IdArgs :
          ~In(task_id, assigned) => TaskDatabase_get_task(db, task_id).ret = None

C5_Witness ==
    /\ op = "create_task"
    /\ reply.task.id = 3
    /\ arg.tags = <<"">>
    /\ TaskDatabase_get_task(db, 3).ret.title = "t"
    /\ TaskDatabase_get_task(db, 4).ret = None

\* C6: list_tasks with a tag returns exactly the stored tasks whose tag list
\* contains that tag, for every tag value including the empty string; without
\* a tag it returns every stored task; in both cases in order of creation.
C6_ListTasksFilter ==
    op = "list_tasks" =>
        LET HasArg(t) == In(arg[1], t.tags)
        IN  reply = dump_all(IF arg = <<>> THEN stored ELSE SelectSeq(stored, HasArg))

\* C7: complete_task(task_id) on a stored key sets the completion flag and
\* replies success; on a key that is not stored it replies "not found" and
\* leaves the store unchanged; a second call on the same id changes nothing.
C7_CompleteTask ==
    [][op' = "complete_task" =>
          /\ dict_has(db.tasks, arg') =>
                /\ dict_get(db'.tasks, arg').completed = TRUE
                /\ reply'.success = TRUE
          /\ ~dict_has(db.tasks, arg') =>
                /\ reply'.success = FALSE
                /\ reply'.error = "not found"
                /\ reply'.task_id = arg'
                /\ db' = db
          /\ (op = "complete_task" /\ arg = arg') => db' = db]_vars

\* complete_task was called twice in a row on a stored id
C7_Witness ==
    /\ op = "complete_task"
    /\ repeat
    /\ reply.success
    /\ dict_get(db.tasks, arg).completed

-----------------------------------------------------------------------------
(* Properties of main's transport selection.                               *)

StdioRun == server = [kind |-> "stdio"] /\ exit_status = <<>>

SseRun ==
    /\ server = [kind |-> "sse", host |-> "0.0.0.0", port |-> port]
    /\ exit_status = <<>>

HttpRun ==
    /\ server = [kind |-> "streamable-http", host |-> "0.0.0.0", port |-> port,
                 path |-> "/mcp"]
    /\ exit_status = <<>>

\* the process has ended with status 1 and no server was started
Exit1 == server = [kind |-> "none"] /\ exit_status = <<1>>

ExactlyOneOutcome ==
    \/ StdioRun /\ ~SseRun /\ ~HttpRun /\ ~Exit1
    \/ ~StdioRun /\ SseRun /\ ~HttpRun /\ ~Exit1
    \/ ~StdioRun /\ ~SseRun /\ HttpRun /\ ~Exit1
    \/ ~StdioRun /\ ~SseRun /\ ~HttpRun /\ Exit1

\* --transport is absent, or its first occurrence is the last argument
TransportAbsentOrLast ==
    ~In(OPT_TRANSPORT, argv) \/ index(argv, OPT_TRANSPORT) = Len(argv)

\* --port is followed by a value
PortHasValue == In(OPT_PORT, argv) /\ index(argv, OPT_PORT) < Len(argv)

PortValue == argv[index(argv, OPT_PORT) + 1]

KnownTransports == {STDIO, SSE, STREAMABLE_HTTP}

\* C8 as stated: exactly one of the four outcomes occurs; stdio is run when
\* --transport is absent or is the last argument; the port is 8000 unless
\* --port is followed by a value; any other transport name leads to exit 1.
C8_Original ==
    main_pc = "done" =>
        /\ ExactlyOneOutcome
        /\ TransportAbsentOrLast => StdioRun
        /\ ~PortHasValue => port = DEFAULT_PORT
        /\ transport \notin KnownTransports => Exit1

\* C8, amended: exactly one of the four outcomes occurs; stdio is selected
\* when --transport is absent or last; the port is 8000 unless --port is
\* followed by a value, and then it is int() of that value; when int()
\* rejects the value main ends in a ValueError, exit status 1 and no server,
\* whatever transport is selected; otherwise the selected transport is run,
\* and a name other than stdio, sse and streamable-http leads to exit 1.
C8_TransportSelection ==
    main_pc = "done" =>
        /\ ExactlyOneOutcome
        /\ TransportAbsentOrLast => transport = STDIO
        /\ ~PortHasValue => port = DEFAULT_PORT
        /\ (PortHasValue /\ py_int(PortValue).ok) => port = py_int(PortValue).value
        /\ (PortHasValue /\ ~py_int(PortValue).ok) => (Exit1 /\ raised = "ValueError")
        /\ (PortHasValue => py_int(PortValue).ok) =>
              /\ transport = STDIO <=> StdioRun
              /\ transport = SSE <=> SseRun
              /\ transport = STREAMABLE_HTTP <=> HttpRun
              /\ transport \notin KnownTransports <=> (Exit1 /\ raised = "SystemExit")
        /\ transport \notin KnownTransports => Exit1

\* streamable-http is run on port 80, given as the text "8_0 "
C8_Witness ==
    /\ main_pc = "done"
    /\ argv = <<PROG, OPT_PORT, PORT_8_0, OPT_TRANSPORT, STREAMABLE_HTTP>>
    /\ HttpRun
    /\ port = 80
    /\ server.port = 80

-----------------------------------------------------------------------------
(* Properties of fetch_with_windows_auth.                                  *)

Succeeded(r) == r.kind = "response" /\ r.status_code < 400

\* C9: the unauthenticated request is always the first request sent; if it
\* succeeds its content is returned and no authenticated request is sent; if
\* it fails with an HTTP status other than 401 an error is returned and no
\* authenticated request is sent; authenticated requests are sent only after
\* a 401 or a failure that is not an HTTP error.
C9_UnauthFirst ==
    /\ fetch_pc = "start" <=> sent = <<>>
    /\ Len(responses) = Len(sent)
    /\ sent # <<>> => sent[1].auth = "none"
    /\ \A i \in 2 .. Len(sent) : sent[i].auth # "none"
    /\ (sent # <<>> /\ Succeeded(responses[1])) =>
          /\ Len(sent) = 1
          /\ fetch_pc = "done"
          /\ result = [kind |-> "Success (no auth needed)",
                       status |-> responses[1].status_code,
                       content |-> IF responses[1].length > MAX_CONTENT
                                   THEN MAX_CONTENT ELSE responses[1].length]
    /\ (sent # <<>> /\ responses[1].kind = "response"
          /\ ~Succeeded(responses[1]) /\ responses[1].status_code # 401) =>
          /\ Len(sent) = 1
          /\ fetch_pc = "done"
          /\ result = [kind |-> "Error", status |-> responses[1].status_code]
    /\ Len(sent) > 1 =>
          \/ responses[1].kind = "exception"
          \/ responses[1].kind = "response" /\ responses[1].status_code = 401

\* the unauthenticated request got a 401 and two authenticated requests followed
C9_Witness ==
    /\ fetch_pc = "done"
    /\ Len(sent) = 3
    /\ sent[1] = [auth |-> "none", timeout |-> UNAUTH_TIMEOUT]
    /\ responses[1].kind = "response" /\ responses[1].status_code = 401
    /\ result.kind = "Success with"

AuthOrder == <<"negotiate", "kerberos", "ntlm">>

\* installed, asked for, and for ntlm with a user and a domain to log in as
Usable(m) ==
    /\ have[m]
    /\ auth_method = "auto" \/ auth_method = m
    /\ m = "ntlm" =>
          /\ "USERNAME" \in DOMAIN environ /\ environ["USERNAME"] # ""
          /\ "USERDOMAIN" \in DOMAIN environ /\ environ["USERDOMAIN"] # ""

Expected == SelectSeq(AuthOrder, Usable)

\* the methods of the authenticated requests sent so far
Attempted == [i \in 1 .. (Len(sent) - 1) |-> sent[i + 1].auth]

\* the request with method x succeeded and every request with a method before it failed
FirstSuccess(x) ==
    \E k \in 1 .. Len(Attempted) :
        /\ Attempted[k] = x
        /\ Succeeded(responses[k + 1])
        /\ \A j \in 1 .. (k - 1) : ~Succeeded(responses[j + 1])

\* the unauthenticated request neither succeeded nor failed with another status than 401
NeedsAuth ==
    /\ sent # <<>>
    /\ \/ responses[1].kind = "exception"
       \/ responses[1].kind = "response" /\ responses[1].status_code = 401

\* C10: the authenticated attempts run in the order negotiate, kerberos,
\* ntlm, restricted to the installed methods that match auth_method (ntlm
\* needs USERNAME and USERDOMAIN, with values that are not empty); each is
\* attempted at most once; "Success with X" is returned exactly when X is the
\* first method whose request succeeded, and no method after X is attempted;
\* "Authentication failed" comes with one error per attempted method when all
\* of them fail, "No authentication methods available" when the list is empty.
C10_AuthOrder ==
    /\ Len(Attempted) <= Len(Expected)
    /\ \A i \in 1 .. Len(Attempted) : Attempted[i] = Expected[i]
    /\ \A i, j \in 1 .. Len(Attempted) : i # j => Attempted[i] # Attempted[j]
    /\ \A x \in {"negotiate", "kerberos", "ntlm"} :
          /\ (result.kind = "Success with" /\ result.method = x) <=> FirstSuccess(x)
          /\ FirstSuccess(x) => (fetch_pc = "done" /\ Attempted[Len(Attempted)] = x)
    /\ result.kind = "Authentication failed" <=>
          /\ fetch_pc = "done"
          /\ NeedsAuth
          /\ Expected # <<>>
          /\ Attempted = Expected
          /\ \A k \in 1 .. Len(Attempted) : ~Succeeded(responses[k + 1])
    /\ result.kind = "Authentication failed" =>
          /\ Len(result.errors) = Len(Attempted)
          /\ \A k \in 1 .. Len(Attempted) : result.errors[k].method = Attempted[k]
    /\ result.kind = "No authentication methods available" <=>
          (fetch_pc = "done" /\ NeedsAuth /\ Expected = <<>>)

\* negotiate and kerberos failed, ntlm succeeded
C10_Witness ==
    /\ fetch_pc = "done"
    /\ auth_method = "auto"
    /\ Attempted = <<"negotiate", "kerberos", "ntlm">>
    /\ result.kind = "Success with"
    /\ result.method = "ntlm"
    /\ Len(errors) = 2

-----------------------------------------------------------------------------
(* Properties of TaskDatabase.update_task.                                 *)

\* batch_update_tasks was given one update with a task_id: it calls update_task once
OneUpdateTask(a) == Len(a) = 1 /\ ~NoTaskId(a[1])

\* C11: update_task(task_id, **kwargs) on a stored task_id sets each field
\* of that task that kwargs names and leaves every other field of it, every
\* other task, the key set and next_id unchanged; keys that name no Task
\* field are ignored, so the call returns the task; on a task_id that is not
\* stored it returns None and changes nothing.
C11_UpdateTaskFrame ==
    [][(op' = "batch_update_tasks" /\ OneUpdateTask(arg')) =>
          LET task_id == dict_get(arg'[1], "task_id")
              kwargs == Popped(arg'[1])
          IN  IF dict_has(db.tasks, task_id)
              THEN /\ "successful" \in DOMAIN reply'
                   /\ reply'.successful = 1
                   /\ db'.next_id = db.next_id
                   /\ Len(db'.tasks) = Len(db.tasks)
                   /\ \A i \in 1 .. Len(db.tasks) :
                         /\ db'.tasks[i].key = db.tasks[i].key
                         /\ db.tasks[i].key # task_id => db'.tasks[i] = db.tasks[i]
                         /\ db.tasks[i].key = task_id =>
                               /\ DOMAIN db'.tasks[i].value = DOMAIN db.tasks[i].value
                               /\ \A f \in DOMAIN db.tasks[i].value :
                                     db'.tasks[i].value[f] =
                                        IF dict_has(kwargs, f)
                                        THEN dict_get(kwargs, f)
                                        ELSE db.tasks[i].value[f]
                   /\ reply'.results[1].task = model_dump(dict_get(db'.tasks, task_id))
              ELSE /\ db' = db
                   /\ "successful" \in DOMAIN reply'
                   /\ reply'.successful = 0
                   /\ reply'.errors = <<[msg |-> "not found", task_id |-> task_id]>>]_vars

====
